---- MODULE Spec2Model ----
(***************************************************************************)
(* Model of the messaging Reader of missy (messaging/reader.go): the       *)
(* missyReader with its "already reading" guard, the background consume    *)
(* loop started by Read (fetch, callback, commit or retry/DLQ publish),    *)
(* Close, and the readBroker wrapper that converts broker records into     *)
(* Message values.                                                         *)
(*                                                                         *)
(* The broker itself (kafka-go) is the environment: a topic is a log per   *)
(* partition, offsets are positions in that log, FetchMessage hands out    *)
(* each record of the group once and in partition order, and a closed      *)
(* connection makes FetchMessage fail.  Message.Time is not modelled.      *)
(***************************************************************************)
EXTENDS Integers, Sequences, FiniteSets

\* ------------------------------------------------------------------ bounds
MaxProduced == 1         \* records written to the topic by other producers
MaxLog == 3              \* records the broker can hold in the model
MaxCloseCalls == 2       \* calls of Close
MaxRetryLog == 7         \* records the broker can hold in the retry scenario

Callers == {"c1", "c2"}  \* goroutines that call Read, each with its callback
Partitions == {0, 1}     \* partitions of the topic
\* What other producers write: a first delivery (Write) and a record that
\* already carries a retry counter (WriteWithRetryCounter).
ProducedRecords ==
    {[key |-> "k1", value |-> "v1", retryCounter |-> 0],
     [key |-> "k2", value |-> "v2", retryCounter |-> 2]}
Payloads == {<<r.key, r.value>> : r \in ProducedRecords}
Ceilings == {1, 2}       \* numOfRetries of a directly constructed reader
TopicNames == {"orders"}
\* The configuration at construction: <<>> when number.of.retries is not set,
\* <<v>> when it is set to the string v (a sequence of characters).
ConfigValues ==
    {<<>>, << <<"2">> >>, << <<"1", "2">> >>, << <<"t", "w", "o">> >>,
     << <<>> >>}

\* ------------------------------------------------------------- data model
\* Message{} : the zero value returned next to a fetch error.
ZeroMessage ==
    [Topic |-> "", Key |-> "", Value |-> "", Partition |-> 0, Offset |-> 0,
     RetryCounter |-> 0]

\* The two implementations of the BrokerReader interface a missyReader can
\* hold: the readBroker wrapper NewReader installs, and a test double that
\* returns Message values as they were published.
BrokerReader == {"readBroker", "double"}

\* A record as the broker stores it.
BrokerRecord(key, value, retryCounter) ==
    [key |-> key, value |-> value, retryCounter |-> retryCounter]

\* strconv.Atoi("number.of.retries") in NewReader: the argument is the
\* literal key name, never a number, so err # nil and the default is used.
DefaultNumOfRetries == 5

VARIABLES
    config,         \* the configured value of number.of.retries, if any
    topic,          \* missyReader.topic
    brokerReader,   \* missyReader.brokerReader (which implementation)
    writerTopic,    \* topic of missyReader.writer
    dlqTopic,       \* topic of missyReader.dlqWriter
    numOfRetries,   \* missyReader.numOfRetries
    readFunc,       \* missyReader.readFunc: <<>> is nil, <<c>> caller c's callback
    cpc,            \* position of each caller of Read
    wpc,            \* position of the goroutine started by each caller
    wmsg,           \* message the goroutine is handling
    wcalls,         \* what the goroutine did for that message
    fetchFailed,    \* the error FetchMessage returned to the goroutine: "none",
                    \* "lost" (connection lost) or "closed" (connection closed)
    log,            \* the topic: partition -> sequence of broker records
    pos,            \* partition -> index of the next record to hand out
    committed,      \* partition -> number of offsets covered by a commit
    otherTopics,    \* records published to any other topic
    closed,         \* the broker connection is closed
    closeCalls,     \* calls of brokerReader.Close
    readerCloseCalls, \* calls of missyReader.Close
    writerClosed,   \* the connection of missyReader.writer is closed
    dlqWriterClosed, \* the connection of missyReader.dlqWriter is closed
    produced,       \* records written by other producers so far
    invoked         \* partition -> callback invocations that have returned

cfgVars ==
    <<config, topic, brokerReader, writerTopic, dlqTopic, numOfRetries>>
readVars == <<readFunc, cpc>>
workVars == <<wpc, wmsg, wcalls, fetchFailed>>
brokerVars == <<log, pos, committed, otherTopics, closed, closeCalls, produced>>
writerVars == <<writerClosed, dlqWriterClosed>>
vars ==
    <<cfgVars, readVars, workVars, brokerVars, writerVars, readerCloseCalls,
      invoked>>

\* The log entries of the loop.
LogNewMessage == "info: new message"                  \* log.Infof, line 138
LogCallbackError == "error: cannot commit a message"  \* log.Errorf, line 140
LogDlq == "error: writing message to DLQ"             \* log.Error, line 143
LogRetry == "info: retry number"                      \* log.Infof, line 146
LogCommitError == "error: cannot commit message"      \* log.Errorf, line 155

\* Nothing done yet for the message: the callback has not returned ("none",
\* later "ok" or "err"), no CommitMessages call, no publish, no call that
\* returned an error ("commit", "publish"), no log entry.
NoCalls ==
    [cb |-> "none", commits |-> <<>>, publishes |-> <<>>, failed |-> {},
     logs |-> <<>>]

\* The message has been fetched and logged.
FetchedCalls == [NoCalls EXCEPT !.logs = <<LogNewMessage>>]

RECURSIVE SumLen(_, _)
SumLen(f, S) ==
    IF S = {} THEN 0
    ELSE LET p == CHOOSE q \in S : TRUE IN Len(f[p]) + SumLen(f, S \ {p})

\* Number of records the topic holds.
LogSize == SumLen(log, Partitions)

\* ------------------------------------------------------------------ Writer
\* Writer.Write and Writer.WriteWithRetryCounter: the record handed to the
\* broker for the writer's topic.
Write(key, value) == BrokerRecord(key, value, 0)

WriteWithRetryCounter(key, value, retryCounter) ==
    BrokerRecord(key, value, retryCounter)

\* A publish call as it reaches a writer.
PublishCall(tp, rec) ==
    [topic |-> tp, key |-> rec.key, value |-> rec.value,
     retryCounter |-> rec.retryCounter]

\* -------------------------------------------------------------- readBroker
\* readBroker.FetchMessage: the Message built from the broker's record; the
\* composite literal sets Topic, Key, Value, Time, Partition and Offset and
\* leaves RetryCounter at its zero value.
ReadBrokerFetchMessage(tp, p, off, rec) ==
    [Topic |-> tp, Key |-> rec.key, Value |-> rec.value, Partition |-> p,
     Offset |-> off, RetryCounter |-> 0]

\* A test double of BrokerReader returns the Message as it was published.
DoubleFetchMessage(tp, p, off, rec) ==
    [Topic |-> tp, Key |-> rec.key, Value |-> rec.value, Partition |-> p,
     Offset |-> off, RetryCounter |-> rec.retryCounter]

\* mr.brokerReader.FetchMessage(ctx) for the record at index i of partition p.
FetchMessage(p, i) ==
    IF brokerReader = "readBroker"
    THEN ReadBrokerFetchMessage(topic, p, i - 1, log[p][i])
    ELSE DoubleFetchMessage(topic, p, i - 1, log[p][i])

\* -------------------------------------------------------------- NewReader
\* The decimal digits strconv.Atoi accepts.
DigitValue ==
    [c \in {"0", "1", "2", "3", "4", "5", "6", "7", "8", "9"} |->
        CASE c = "0" -> 0 [] c = "1" -> 1 [] c = "2" -> 2 [] c = "3" -> 3
          [] c = "4" -> 4 [] c = "5" -> 5 [] c = "6" -> 6 [] c = "7" -> 7
          [] c = "8" -> 8 [] c = "9" -> 9]

AllDigits(s) == \A i \in 1..Len(s) : s[i] \in DOMAIN DigitValue

RECURSIVE DigitsValue(_)
DigitsValue(s) ==
    IF s = <<>> THEN 0
    ELSE 10 * DigitsValue(SubSeq(s, 1, Len(s) - 1)) + DigitValue[s[Len(s)]]

\* strconv.Atoi on a string of characters: an optional sign and at least
\* one decimal digit, anything else is an error.
Atoi(s) ==
    LET signed == s # <<>> /\ s[1] \in {"+", "-"}
        digits == IF signed THEN Tail(s) ELSE s
    IN  IF digits = <<>> \/ ~AllDigits(digits)
        THEN [err |-> TRUE, n |-> 0]
        ELSE [err |-> FALSE,
              n |-> IF signed /\ s[1] = "-" THEN 0 - DigitsValue(digits)
                                            ELSE DigitsValue(digits)]

\* The string NewReader hands to strconv.Atoi: the name of the key.
NumberOfRetriesKey ==
    <<"n", "u", "m", "b", "e", "r", ".", "o", "f", ".",
      "r", "e", "t", "r", "i", "e", "s">>

\* numOfRetries as NewReader computes it: Atoi of the key name, and the
\* default when that fails.  The configuration is not read.
NewReaderNumOfRetries ==
    IF Atoi(NumberOfRetriesKey).err THEN DefaultNumOfRetries
    ELSE Atoi(NumberOfRetriesKey).n

\* Topic of the DLQ writer NewReader builds.
DlqTopicOf(tp) == tp \o ".dlq"

\* The topic holds no record.
EmptyLog == [p \in Partitions |-> <<>>]

\* The topic holds two records of one partition, written by Write.
Backlog ==
    [p \in Partitions |->
        IF p = 0 THEN <<BrokerRecord("k1", "v1", 0), BrokerRecord("k2", "v2", 0)>>
                 ELSE <<>>]

\* The state after construction, the configuration being one of configs and
\* the content of the topic one of logs.
InitWith(configs, logs) ==
    /\ config \in configs
    /\ topic \in TopicNames
    /\ \/ /\ brokerReader = "readBroker"
          /\ numOfRetries = NewReaderNumOfRetries
       \/ /\ brokerReader = "double"
          /\ numOfRetries \in Ceilings
    /\ writerTopic = topic
    /\ dlqTopic = DlqTopicOf(topic)
    /\ readFunc = <<>>
    /\ cpc = [c \in Callers |-> "idle"]
    /\ wpc = [c \in Callers |-> "none"]
    /\ wmsg = [c \in Callers |-> ZeroMessage]
    /\ wcalls = [c \in Callers |-> NoCalls]
    /\ fetchFailed = [c \in Callers |-> "none"]
    /\ log \in logs
    /\ pos = [p \in Partitions |-> 1]
    /\ committed = [p \in Partitions |-> 0]
    /\ otherTopics = <<>>
    /\ closed = FALSE
    /\ closeCalls = 0
    /\ readerCloseCalls = 0
    /\ writerClosed = FALSE
    /\ dlqWriterClosed = FALSE
    /\ produced = 0
    /\ invoked = [p \in Partitions |-> <<>>]

\* Construction with number.of.retries not set.
Init == InitWith({<<>>}, {EmptyLog})

\* Construction by NewReader under any of the configurations.
InitConfig == InitWith(ConfigValues, {EmptyLog}) /\ brokerReader = "readBroker"

\* Construction by NewReader on a topic that holds records already.
InitBacklog == InitWith({<<>>}, {Backlog}) /\ brokerReader = "readBroker"

\* ------------------------------------------------------------------- Read
\* Mutation: the guard of Read never finds a registered read function.
AlreadyReadingNever == FALSE

\* The guard of Read: a read function is already registered.
AlreadyReading == readFunc # <<>>

\* Read, first half: the test of mr.readFunc.  The caller either returns the
\* "already reading" error or goes on to register its callback.
ReadCheck(c) ==
    /\ cpc[c] \in {"idle", "rejected"}
    /\ cpc' = [cpc EXCEPT ![c] = IF AlreadyReading THEN "rejected" ELSE "set"]
    /\ UNCHANGED <<readFunc, cfgVars, writerVars, readerCloseCalls, workVars, brokerVars, invoked>>

\* Mutation: Read runs the loop itself and returns when the loop is over.
ReadReturnAfterLoop == "looping"

\* What Read does once the goroutine is started: return nil.
ReadReturn == "accepted"

\* Read, second half: mr.readFunc = &msgFunc, go func(), return nil.
ReadStart(c) ==
    /\ cpc[c] = "set"
    /\ readFunc' = <<c>>
    /\ wpc' = [wpc EXCEPT ![c] = "fetch"]
    /\ cpc' = [cpc EXCEPT ![c] = ReadReturn]
    /\ UNCHANGED <<wmsg, wcalls, fetchFailed, cfgVars, writerVars, readerCloseCalls, brokerVars, invoked>>

\* ------------------------------------------------------- the consume loop
\* Mutation: a closed connection still delivers the records of the topic.
FetchReadyWhenClosed(p) == pos[p] <= Len(log[p])

\* FetchMessage can return a record of partition p: the connection is open
\* and a record is waiting.
FetchReady(p) == ~closed /\ pos[p] <= Len(log[p])

\* FetchMessage returns the next record of partition p; the goroutine logs
\* it and calls msgFunc.
FetchOk(w, p) ==
    /\ wpc[w] = "fetch"
    /\ FetchReady(p)
    /\ wmsg' = [wmsg EXCEPT ![w] = FetchMessage(p, pos[p])]
    /\ pos' = [pos EXCEPT ![p] = @ + 1]
    /\ wcalls' = [wcalls EXCEPT ![w] = FetchedCalls]
    /\ wpc' = [wpc EXCEPT ![w] = "callback"]
    /\ UNCHANGED <<fetchFailed, cfgVars, writerVars, readerCloseCalls, readVars, log, committed, otherTopics,
                   closed, closeCalls, produced, invoked>>

\* Mutation: the loop goes on to the next fetch after a fetch error.
AfterFetchErrorContinue == "fetch"

\* Where the loop goes when FetchMessage has returned an error: break.
AfterFetchError == "done"

\* Mutation: the goroutine unregisters the read function when the loop ends.
ReadFuncCleared == <<>>

\* mr.readFunc when the loop has ended: nothing assigns it after Read.
ReadFuncAfterLoop == readFunc

\* FetchMessage fails on an open connection (connection lost).
FetchFail(w) ==
    /\ wpc[w] = "fetch"
    /\ ~closed
    /\ fetchFailed' = [fetchFailed EXCEPT ![w] = "lost"]
    /\ wpc' = [wpc EXCEPT ![w] = AfterFetchError]
    /\ readFunc' = ReadFuncAfterLoop
    /\ UNCHANGED <<wmsg, wcalls, cfgVars, writerVars, readerCloseCalls, cpc,
                   brokerVars, invoked>>

\* FetchMessage fails because the connection was closed.
FetchClosed(w) ==
    /\ wpc[w] = "fetch"
    /\ closed
    /\ fetchFailed' = [fetchFailed EXCEPT ![w] = "closed"]
    /\ wpc' = [wpc EXCEPT ![w] = AfterFetchError]
    /\ readFunc' = ReadFuncAfterLoop
    /\ UNCHANGED <<wmsg, wcalls, cfgVars, writerVars, readerCloseCalls, cpc,
                   brokerVars, invoked>>

\* Mutation: the loop commits whatever msgFunc returned.
AfterCallbackAlwaysCommit(ok) == "commit"

\* Where the loop goes when msgFunc has returned.
AfterCallback(ok) == IF ok THEN "commit" ELSE "publish"

\* msgFunc(message) returns, with or without an error.
Callback(w, ok) ==
    /\ wpc[w] = "callback"
    /\ invoked' = [invoked EXCEPT ![wmsg[w].Partition] =
          Append(@, [func |-> w, offset |-> wmsg[w].Offset, ok |-> ok])]
    /\ wcalls' = [wcalls EXCEPT
          ![w].cb = IF ok THEN "ok" ELSE "err",
          ![w].logs = IF ok THEN @ ELSE Append(@, LogCallbackError)]
    /\ wpc' = [wpc EXCEPT ![w] = AfterCallback(ok)]
    /\ UNCHANGED <<wmsg, fetchFailed, cfgVars, writerVars, readerCloseCalls, readVars, brokerVars>>

Max(a, b) == IF a >= b THEN a ELSE b

\* Mutation: the loop commits a zero message instead of the one it handled.
CommitArgsZero(m) == <<ZeroMessage>>

\* The messages the loop passes to CommitMessages for message m.
CommitArgs(m) == <<m>>

\* Mutation: a failed commit is handled like a failed callback.
AfterCommitRetry(ok) == IF ok THEN "fetch" ELSE "publish"

\* Where the loop goes when CommitMessages has returned: the next iteration.
AfterCommit(ok) == "fetch"

\* mr.brokerReader.CommitMessages(ctx, message); an error is only logged.
Commit(w, ok) ==
    /\ wpc[w] = "commit"
    /\ wcalls' = [wcalls EXCEPT
          ![w].commits = @ \o CommitArgs(wmsg[w]),
          ![w].failed = IF ok THEN @ ELSE @ \cup {"commit"},
          ![w].logs = IF ok THEN @ ELSE Append(@, LogCommitError)]
    /\ committed' =
          IF ok
          THEN [committed EXCEPT ![wmsg[w].Partition] =
                   Max(@, wmsg[w].Offset + 1)]
          ELSE committed
    /\ wpc' = [wpc EXCEPT ![w] = AfterCommit(ok)]
    /\ UNCHANGED <<wmsg, fetchFailed, cfgVars, writerVars, readerCloseCalls, readVars, log, pos, otherTopics,
                   closed, closeCalls, produced, invoked>>

\* Mutation: the ceiling is reached one retry early.
RetriesExhaustedEarly(m) == m.RetryCounter + 1 >= numOfRetries

\* Mutation: the comparison with the ceiling is strict.
RetriesExhaustedStrict(m) == m.RetryCounter > numOfRetries

\* The test that sends a failed message to the DLQ instead of a retry.
RetriesExhausted(m) == m.RetryCounter >= numOfRetries

\* The publish the loop makes for a message whose callback failed.
FailurePublish(m) ==
    IF RetriesExhausted(m)
    THEN PublishCall(dlqTopic, Write(m.Key, m.Value))
    ELSE PublishCall(writerTopic,
                     WriteWithRetryCounter(m.Key, m.Value, m.RetryCounter + 1))

\* The broker stores a published record: in partition p of the reader's
\* topic, or with the records of the other topics.
Stored(call, p) ==
    IF call.topic = topic
    THEN /\ log' = [log EXCEPT ![p] =
                      Append(@, BrokerRecord(call.key, call.value,
                                             call.retryCounter))]
         /\ UNCHANGED otherTopics
    ELSE /\ otherTopics' = Append(otherTopics, call)
         /\ UNCHANGED log

\* The entry the loop logs before that publish.
FailureLog(m) == IF RetriesExhausted(m) THEN LogDlq ELSE LogRetry

\* Mutation: a failed publish ends the loop.
AfterPublishStop(ok) == IF ok THEN "fetch" ELSE "done"

\* Where the loop goes when the writer has returned: continue.
AfterPublish(ok) == "fetch"

\* The callback failed: write to the DLQ or write the retry, then continue.
\* The error a writer returns is dropped: not tested, not logged.
Publish(w, ok, p, cap) ==
    /\ wpc[w] = "publish"
    /\ ok => LogSize + Len(otherTopics) < cap
    /\ wcalls' = [wcalls EXCEPT
          ![w].publishes = Append(@, FailurePublish(wmsg[w])),
          ![w].failed = IF ok THEN @ ELSE @ \cup {"publish"},
          ![w].logs = Append(@, FailureLog(wmsg[w]))]
    /\ IF ok THEN Stored(FailurePublish(wmsg[w]), p)
             ELSE UNCHANGED <<log, otherTopics>>
    /\ wpc' = [wpc EXCEPT ![w] = AfterPublish(ok)]
    /\ UNCHANGED <<wmsg, fetchFailed, cfgVars, writerVars, readerCloseCalls, readVars, pos, committed, closed,
                   closeCalls, produced, invoked>>

\* ------------------------------------------------------------------ Close
\* missyReader.Close: mr.brokerReader.Close() and nothing else; mr.writer
\* and mr.dlqWriter are not touched.
Close ==
    /\ readerCloseCalls < MaxCloseCalls
    /\ closed' = TRUE
    /\ closeCalls' = closeCalls + 1
    /\ readerCloseCalls' = readerCloseCalls + 1
    /\ UNCHANGED <<cfgVars, writerVars, readVars, workVars, log, pos, committed,
                   otherTopics, produced, invoked>>

\* ------------------------------------------------------------ environment
\* Another producer publishes to the reader's topic through a Writer.
Produce(key, value, n, p) ==
    /\ produced < MaxProduced
    /\ LogSize < MaxLog
    /\ produced' = produced + 1
    /\ Stored(PublishCall(topic, WriteWithRetryCounter(key, value, n)), p)
    /\ UNCHANGED <<cfgVars, writerVars, readerCloseCalls, readVars, workVars, pos, committed, closed,
                   closeCalls, invoked>>

\* Read called while no other call of Read is between its test and its
\* assignment: the calls on the instance are sequential.
SeqReadCheck(c) ==
    /\ \A d \in Callers : cpc[d] # "set"
    /\ ReadCheck(c)

Next ==
    \/ \E c \in Callers : SeqReadCheck(c)
    \/ \E c \in Callers : ReadStart(c)
    \/ \E w \in Callers, p \in Partitions : FetchOk(w, p)
    \/ \E w \in Callers : FetchFail(w)
    \/ \E w \in Callers : FetchClosed(w)
    \/ \E w \in Callers, ok \in BOOLEAN : Callback(w, ok)
    \/ \E w \in Callers, ok \in BOOLEAN : Commit(w, ok)
    \/ \E w \in Callers, ok \in BOOLEAN, p \in Partitions :
          Publish(w, ok, p, MaxLog)
    \/ Close
    \/ \E r \in ProducedRecords, p \in Partitions :
          Produce(r.key, r.value, r.retryCounter, p)

Spec == Init /\ [][Next]_vars

\* Closing the connection unblocks a fetch in flight: a goroutine waiting in
\* FetchMessage on a closed connection does get its error.
FairSpec == Spec /\ \A w \in Callers : WF_vars(FetchClosed(w))

\* Calls of Read from several goroutines at once: any interleaving of the
\* test and the assignment.
NextRace ==
    \/ \E c \in Callers : ReadCheck(c)
    \/ \E c \in Callers : ReadStart(c)
    \/ \E w \in Callers, p \in Partitions : FetchOk(w, p)
    \/ \E w \in Callers : FetchFail(w)
    \/ \E w \in Callers : FetchClosed(w)
    \/ \E w \in Callers, ok \in BOOLEAN : Callback(w, ok)
    \/ \E w \in Callers, ok \in BOOLEAN : Commit(w, ok)
    \/ \E w \in Callers, ok \in BOOLEAN, p \in Partitions :
          Publish(w, ok, p, MaxLog)
    \/ Close
    \/ \E r \in ProducedRecords, p \in Partitions :
          Produce(r.key, r.value, r.retryCounter, p)

SpecRace == Init /\ [][NextRace]_vars

\* Calls of Read from several goroutines at once on a topic with a backlog.
SpecRaceBacklog == InitBacklog /\ [][NextRace]_vars

\* Readers built by NewReader under every configuration.
SpecConfig == InitConfig /\ [][Next]_vars

\* The retry scenario: the records come from Write (first delivery), the
\* callback fails on every delivery and every publish succeeds.
NextRetry ==
    \/ \E c \in Callers : SeqReadCheck(c)
    \/ \E c \in Callers : ReadStart(c)
    \/ \E w \in Callers, p \in Partitions : FetchOk(w, p)
    \/ \E w \in Callers : FetchFail(w)
    \/ \E w \in Callers : FetchClosed(w)
    \/ \E w \in Callers : Callback(w, FALSE)
    \/ \E w \in Callers, p \in Partitions : Publish(w, TRUE, p, MaxRetryLog)
    \/ Close
    \/ \E r \in ProducedRecords, p \in Partitions :
          r.retryCounter = 0 /\ Produce(r.key, r.value, 0, p)

SpecRetry == Init /\ [][NextRetry]_vars

\* =================================================================== claims
\* The goroutine w has a message in hand or has finished handling one.
HasMessage(w) == wmsg[w] # ZeroMessage

\* The goroutine w is through with its message: back at the fetch, or out of
\* the loop.
Handled(w) == wcalls[w].cb # "none" /\ wpc[w] \in {"fetch", "done"}

\* The callback invocations recorded for message m.
InvocationsOf(m) ==
    {i \in 1..Len(invoked[m.Partition]) :
        invoked[m.Partition][i].offset = m.Offset}

\* C1 as stated: every message whose offset is covered by the committed
\* offset of its partition had its callback return success; a message whose
\* callback returned an error is never covered.
C1_CoveredOnlyIfSucceeded ==
    \A p \in Partitions : \A i \in 1..Len(invoked[p]) :
        invoked[p][i].offset < committed[p] => invoked[p][i].ok

\* C1 as amended: CommitMessages is only ever called for a message whose
\* callback returned success, a message whose callback returned an error is
\* never itself passed to CommitMessages, and the committed offset of a
\* partition is always the offset of a message whose callback succeeded.
C1_CommitOnlyAfterSuccess ==
    /\ \A w \in Callers : \A k \in 1..Len(wcalls[w].commits) :
          /\ wcalls[w].cb = "ok"
          /\ \A i \in InvocationsOf(wcalls[w].commits[k]) :
                invoked[wcalls[w].commits[k].Partition][i].ok
    /\ \A w \in Callers : wcalls[w].cb = "err" => wcalls[w].commits = <<>>
    /\ \A p \in Partitions :
          committed[p] > 0 =>
             \E i \in 1..Len(invoked[p]) :
                invoked[p][i].offset = committed[p] - 1 /\ invoked[p][i].ok

\* C1 witness: a partition has a committed offset that covers a message
\* whose callback failed, the commit being that of a later message.
C1_Witness ==
    \E p \in Partitions : \E i \in 1..Len(invoked[p]) :
        /\ ~invoked[p][i].ok
        /\ invoked[p][i].offset < committed[p] - 1

\* The publish call with which the loop retries message m.
RetryOf(m) ==
    [topic |-> topic, key |-> m.Key, value |-> m.Value,
     retryCounter |-> m.RetryCounter + 1]

\* The publish call with which the loop sends message m to the DLQ.
DlqOf(m) ==
    [topic |-> topic \o ".dlq", key |-> m.Key, value |-> m.Value,
     retryCounter |-> 0]

\* C2: a message whose callback failed and whose RetryCounter is below the
\* ceiling gets, before the next fetch, exactly one publish, to the reader's
\* own topic, with its key and value and RetryCounter + 1; nothing goes to the
\* DLQ and CommitMessages is not called for it.
C2_RetryBelowCeiling ==
    \A w \in Callers :
        (wcalls[w].cb = "err" /\ wmsg[w].RetryCounter < numOfRetries) =>
            /\ wcalls[w].commits = <<>>
            /\ wpc[w] \in {"publish", "fetch", "done"}
            /\ wpc[w] = "publish" => wcalls[w].publishes = <<>>
            /\ Handled(w) => wcalls[w].publishes = <<RetryOf(wmsg[w])>>

\* C2 witness: a failed message with RetryCounter = ceiling - 1 has been
\* handled.
C2_Witness ==
    \E w \in Callers :
        /\ Handled(w)
        /\ wcalls[w].cb = "err"
        /\ wmsg[w].RetryCounter + 1 = numOfRetries
        /\ Len(wcalls[w].publishes) = 1

\* C3: a message whose callback failed and whose RetryCounter has reached the
\* ceiling gets, before the next fetch, exactly one publish, to the topic
\* <topic>.dlq, with its key and value and RetryCounter 0; nothing goes to the
\* reader's own topic and CommitMessages is not called for it.
C3_DlqAtCeiling ==
    \A w \in Callers :
        (wcalls[w].cb = "err" /\ wmsg[w].RetryCounter >= numOfRetries) =>
            /\ wcalls[w].commits = <<>>
            /\ wpc[w] \in {"publish", "fetch", "done"}
            /\ wpc[w] = "publish" => wcalls[w].publishes = <<>>
            /\ Handled(w) => wcalls[w].publishes = <<DlqOf(wmsg[w])>>

\* C3 witness: a failed message with RetryCounter = ceiling has been handled
\* and its record is the last one of the other topics.
C3_Witness ==
    \E w \in Callers :
        /\ Handled(w)
        /\ wcalls[w].cb = "err"
        /\ wmsg[w].RetryCounter = numOfRetries
        /\ Len(wcalls[w].publishes) = 1
        /\ otherTopics # <<>>
        /\ otherTopics[Len(otherTopics)] = DlqOf(wmsg[w])

\* C5: a message whose callback succeeded gets exactly one CommitMessages
\* call, for that message and no other, and no publish at all, whatever its
\* RetryCounter.
C5_CommitOnSuccess ==
    \A w \in Callers :
        wcalls[w].cb = "ok" =>
            /\ wcalls[w].publishes = <<>>
            /\ wpc[w] \in {"commit", "fetch", "done"}
            /\ wpc[w] = "commit" => wcalls[w].commits = <<>>
            /\ Handled(w) => wcalls[w].commits = <<wmsg[w]>>

\* C5 witness: a message with a positive RetryCounter succeeded and has been
\* handled.
C5_Witness ==
    \E w \in Callers :
        /\ Handled(w)
        /\ wcalls[w].cb = "ok"
        /\ wmsg[w].RetryCounter > 0
        /\ Len(wcalls[w].commits) = 1

\* The (partition, index) pairs of the callback invocations made for records
\* with payload kv.
DeliveriesOf(kv) ==
    {pi \in Partitions \X (1..MaxRetryLog) :
        /\ pi[2] <= Len(invoked[pi[1]])
        /\ log[pi[1]][invoked[pi[1]][pi[2]].offset + 1].key = kv[1]
        /\ log[pi[1]][invoked[pi[1]][pi[2]].offset + 1].value = kv[2]}

\* The (partition, index) pairs of the records with payload kv that carry a
\* retry counter, that is, that the reader republished.
RepublishedOf(kv) ==
    {pi \in Partitions \X (1..MaxRetryLog) :
        /\ pi[2] <= Len(log[pi[1]])
        /\ log[pi[1]][pi[2]].key = kv[1]
        /\ log[pi[1]][pi[2]].value = kv[2]
        /\ log[pi[1]][pi[2]].retryCounter > 0}

\* C4: for a reader built by NewReader (ceiling c) that consumes its own
\* retries, a payload whose callback always fails is handed to the callback
\* at most c + 1 times and republished to the topic at most c times.
C4_RetryBounded ==
    brokerReader = "readBroker" =>
        \A kv \in Payloads :
            /\ Cardinality(DeliveriesOf(kv)) <= numOfRetries + 1
            /\ Cardinality(RepublishedOf(kv)) <= numOfRetries

\* C6: with sequential calls of Read, one call at most is accepted and starts
\* the only goroutine; a rejected call starts none, leaves the accepted
\* callback registered, and its callback is never invoked; every fetched
\* message goes to one invocation, of the accepted callback.
C6_SecondReadRejected ==
    /\ Cardinality({c \in Callers : cpc[c] \in {"set", "accepted"}}) <= 1
    /\ Cardinality({c \in Callers : wpc[c] # "none"}) <= 1
    /\ \A c \in Callers : cpc[c] = "accepted" => readFunc = <<c>>
    /\ \A c \in Callers :
          cpc[c] = "rejected" =>
             /\ wpc[c] = "none"
             /\ readFunc # <<>> /\ readFunc # <<c>>
             /\ cpc[readFunc[1]] = "accepted"
    /\ \A p \in Partitions : \A i, j \in 1..Len(invoked[p]) :
          /\ readFunc = <<invoked[p][i].func>>
          /\ invoked[p][i].offset = invoked[p][j].offset => i = j
    /\ \A w \in Callers :
          wpc[w] = "callback" => InvocationsOf(wmsg[w]) = {}

\* C6 witness: one call was accepted, a later one rejected, and the accepted
\* callback has been invoked.
C6_Witness ==
    \E c, d \in Callers :
        /\ cpc[c] = "accepted"
        /\ cpc[d] = "rejected"
        /\ \E p \in Partitions : Len(invoked[p]) > 0

\* C7: whatever the interleaving of concurrent calls of Read, one call at
\* most is accepted and one goroutine at most is started.
C7_SingleFlight ==
    /\ Cardinality({c \in Callers : cpc[c] = "accepted"}) <= 1
    /\ Cardinality({c \in Callers : wpc[c] # "none"}) <= 1

\* C8: once FetchMessage has returned an error to the goroutine, the loop is
\* over: the goroutine fetches, invokes, commits and publishes nothing more,
\* and no other goroutine is started.
C8_FetchErrorEndsLoop ==
    [][\A w \in Callers :
          fetchFailed[w] # "none" =>
             /\ wpc[w] = "done" /\ wpc'[w] = "done"
             /\ wmsg'[w] = wmsg[w] /\ wcalls'[w] = wcalls[w]
             /\ pos' = pos /\ committed' = committed
             /\ invoked' = invoked /\ otherTopics' = otherTopics
             /\ \A c \in Callers : wpc[c] = "none" => wpc'[c] = "none"]_vars

\* C8 witness: the fetch failed on an open connection and the loop is over
\* although a record is waiting in the topic.
C8_Witness ==
    \E w \in Callers :
        /\ fetchFailed[w] = "lost" /\ wpc[w] = "done"
        /\ ~closed
        /\ \E p \in Partitions : pos[p] <= Len(log[p])

\* C9: when the connection is closed while the goroutine waits in
\* FetchMessage, the fetch returns an error and the loop terminates, and
\* once Close has returned no callback invocation starts.
C9_CloseEndsBlockedFetch ==
    /\ [][\A w \in Callers :
            closed /\ wpc[w] # "callback" => wpc'[w] # "callback"]_vars
    /\ \A w \in Callers :
          (closed /\ wpc[w] = "fetch") ~>
             (wpc[w] = "done" /\ fetchFailed[w] = "closed")

\* C9 witness: the connection was closed under a waiting fetch, the loop has
\* ended on that fetch's error, and a record is still waiting in the topic.
C9_Witness ==
    \E w \in Callers :
        /\ closed
        /\ fetchFailed[w] = "closed" /\ wpc[w] = "done"
        /\ \E p \in Partitions : pos[p] <= Len(log[p])

\* C10: the Message that readBroker.FetchMessage returns has the key, the
\* value and the retry counter the record was published with.
C10_RetryCounterRoundTrip ==
    \A w \in Callers :
        (brokerReader = "readBroker" /\ HasMessage(w)) =>
            /\ wmsg[w].Key = log[wmsg[w].Partition][wmsg[w].Offset + 1].key
            /\ wmsg[w].Value = log[wmsg[w].Partition][wmsg[w].Offset + 1].value
            /\ wmsg[w].RetryCounter =
                  log[wmsg[w].Partition][wmsg[w].Offset + 1].retryCounter

\* C11: once Reader.Close has returned, the broker connection, the retry
\* writer's connection and the DLQ writer's connection are all closed.
C11_CloseReleasesAll ==
    closeCalls > 0 => closed /\ writerClosed /\ dlqWriterClosed

\* The ceiling the configuration asks for: the integer number.of.retries is
\* set to, 5 when it is not set or not a number.
ConfiguredCeiling(cfg) ==
    IF cfg = <<>> \/ Atoi(cfg[1]).err THEN 5 ELSE Atoi(cfg[1]).n

\* C12: the ceiling of a reader built by NewReader is the configured value
\* of number.of.retries when that is an integer and 5 otherwise.
C12_CeilingFromConfig ==
    brokerReader = "readBroker" => numOfRetries = ConfiguredCeiling(config)

\* C13: when the callback succeeded and CommitMessages returned an error,
\* the loop publishes nothing for the message, has called CommitMessages for
\* it once only, and is at the next fetch; it ends only on a fetch error.
C13_CommitErrorContinues ==
    \A w \in Callers :
        "commit" \in wcalls[w].failed =>
            /\ wcalls[w].cb = "ok"
            /\ wcalls[w].commits = <<wmsg[w]>>
            /\ wcalls[w].publishes = <<>>
            /\ wpc[w] \in {"fetch", "done"}
            /\ wpc[w] = "done" => fetchFailed[w] # "none"

\* C13 witness: the commit of a successful message failed and the goroutine
\* is back at the fetch, the connection being open.
C13_Witness ==
    \E w \in Callers :
        /\ "commit" \in wcalls[w].failed
        /\ wpc[w] = "fetch"
        /\ ~closed

\* C14: when the callback failed and the retry or DLQ publish returned an
\* error, the loop has made that one publish and no commit, is at the next
\* fetch (it ends only on a fetch error), and the failed publish stored
\* nothing and moved no committed offset: the message is not committed, not
\* in the topic again and not in the DLQ.
C14_PublishErrorDropsMessage ==
    /\ [](\A w \in Callers :
             "publish" \in wcalls[w].failed =>
                /\ wcalls[w].cb = "err"
                /\ wcalls[w].commits = <<>>
                /\ wcalls[w].publishes = <<FailurePublish(wmsg[w])>>
                /\ wpc[w] \in {"fetch", "done"}
                /\ wpc[w] = "done" => fetchFailed[w] # "none"
                /\ committed[wmsg[w].Partition] <= wmsg[w].Offset)
    /\ [][\A w \in Callers :
            ("publish" \notin wcalls[w].failed
               /\ "publish" \in wcalls'[w].failed) =>
                  /\ log' = log
                  /\ otherTopics' = otherTopics
                  /\ committed' = committed]_vars

\* C14 witness: a retry publish failed, the goroutine is back at the fetch
\* and the topic holds nothing but the record that was fetched.
C14_Witness ==
    \E w \in Callers :
        /\ "publish" \in wcalls[w].failed
        /\ wpc[w] = "fetch"
        /\ LogSize = 1
        /\ otherTopics = <<>>

\* The entries the loop has logged for message m when it calls the writer.
LogsBeforePublish(m) == <<LogNewMessage, LogCallbackError, FailureLog(m)>>

\* C15: whenever a retry or DLQ publish has returned an error, the loop has
\* logged an entry for it, after the entries written before the publish.
C15_PublishErrorLogged ==
    \A w \in Callers :
        "publish" \in wcalls[w].failed =>
            Len(wcalls[w].logs) > Len(LogsBeforePublish(wmsg[w]))

\* The offsets of the callback invocations of partition p strictly increase.
InFetchOrder(p) ==
    \A i, j \in 1..Len(invoked[p]) :
        i < j => invoked[p][i].offset < invoked[p][j].offset

\* C16: one callback invocation at most is in progress, no goroutine has
\* fetched a further message while the commit or the publish of a message
\* is still to return, and the callback invocations of a partition are in
\* the order of the offsets.
C16_StrictlySequential ==
    /\ Cardinality({w \in Callers : wpc[w] = "callback"}) <= 1
    /\ \A w, v \in Callers :
          (w # v /\ wpc[w] \in {"commit", "publish"}) =>
              wpc[v] \notin {"callback", "commit", "publish"}
    /\ \A p \in Partitions : InFetchOrder(p)

\* C17: as soon as the loop of an accepted Read exists, and whatever it is
\* doing or waiting for, the call of Read has returned nil; and what the
\* loop does afterwards never changes that result.
C17_ReadReturnsAtOnce ==
    /\ [](\A c \in Callers : wpc[c] # "none" => cpc[c] = "accepted")
    /\ [][\A c \in Callers :
            cpc[c] = "accepted" => cpc'[c] = "accepted"]_vars

\* C17 witness: the loop of an accepted Read had a call fail for its last
\* message and then ended on a fetch error; Read had returned nil.
C17_Witness ==
    \E c \in Callers :
        /\ cpc[c] = "accepted"
        /\ wcalls[c].failed # {}
        /\ fetchFailed[c] = "lost"
        /\ wpc[c] = "done"

\* C18: once missyReader.Close has been called, one time or several, the
\* Close of the broker connection has been invoked exactly one time.
C18_BrokerClosedOnce ==
    readerCloseCalls >= 1 => closeCalls = 1

\* C19: a registered read function stays registered; while one is
\* registered every call of Read is rejected and no goroutine is started,
\* whether the loop is running, has ended or the connection is closed; a
\* call of Read that finds none registered is not rejected, closed connection
\* or not; and a goroutine that is at its first fetch when the connection is
\* closed gets no message, so it ends without a callback invocation.
C19_ReadFuncNeverCleared ==
    [][/\ readFunc # <<>> => readFunc' = readFunc
       /\ \A c \in Callers :
             (readFunc # <<>> /\ cpc'[c] # cpc[c]) => cpc'[c] = "rejected"
       /\ \A c \in Callers :
             (readFunc # <<>> /\ wpc[c] = "none") => wpc'[c] = "none"
       /\ \A c \in Callers :
             (readFunc = <<>> /\ cpc'[c] # cpc[c]) => cpc'[c] # "rejected"
       /\ \A w \in Callers :
             (closed /\ wpc[w] = "fetch" /\ wmsg[w] = ZeroMessage) =>
                /\ wpc'[w] \in {"fetch", "done"}
                /\ wmsg'[w] = ZeroMessage
                /\ invoked' = invoked]_vars

\* C19 witness: the connection is closed, the loop of the accepted Read has
\* ended at a fetch on the closed connection without any callback
\* invocation, and another call of Read has been rejected.
C19_Witness ==
    \E c, d \in Callers :
        /\ closed
        /\ cpc[c] = "accepted"
        /\ wpc[c] = "done"
        /\ fetchFailed[c] = "closed"
        /\ wmsg[c] = ZeroMessage
        /\ \A p \in Partitions : invoked[p] = <<>>
        /\ readFunc = <<c>>
        /\ cpc[d] = "rejected"

\* C20: Close leaves the goroutine where it is; on a closed connection a
\* goroutine whose callback is executing goes on to the commit call if the
\* callback succeeds and to the publish if it fails, makes that call (the
\* writers being open), comes back to the fetch, and from the fetch it can
\* only end: it gets no further message and starts no callback.
C20_CloseDoesNotWait ==
    [][/\ closed' # closed =>
             (wpc' = wpc /\ wmsg' = wmsg /\ wcalls' = wcalls)
       /\ \A w \in Callers :
             (closed /\ wpc[w] = "callback" /\ wpc'[w] # "callback") =>
                /\ wpc'[w] = IF wcalls'[w].cb = "ok" THEN "commit" ELSE "publish"
                /\ wmsg'[w] = wmsg[w]
       /\ \A w \in Callers :
             (closed /\ wpc[w] = "commit" /\ wpc'[w] # "commit") =>
                /\ wcalls'[w].commits = <<wmsg[w]>>
                /\ wpc'[w] = "fetch"
       /\ \A w \in Callers :
             (closed /\ wpc[w] = "publish" /\ wpc'[w] # "publish") =>
                /\ wcalls'[w].publishes = <<FailurePublish(wmsg[w])>>
                /\ ~writerClosed /\ ~dlqWriterClosed
                /\ wpc'[w] = "fetch"
       /\ \A w \in Callers :
             (closed /\ wpc[w] \in {"none", "fetch", "done"}) =>
                /\ wpc'[w] \in {"none", "fetch", "done"}
                /\ wpc[w] = "fetch" => wmsg'[w] = wmsg[w]]_vars

\* C20 witness: the connection was closed with a message in hand (it was
\* fetched on the open connection); its callback has succeeded and the
\* goroutine is about to call CommitMessages on the closed connection.
C20_Witness ==
    \E w \in Callers :
        /\ closed
        /\ HasMessage(w)
        /\ wcalls[w].cb = "ok"
        /\ wcalls[w].commits = <<>>
        /\ wpc[w] = "commit"

TypeOK ==
    /\ readFunc \in {<<>>} \cup {<<c>> : c \in Callers}
    /\ \A c \in Callers : cpc[c] \in {"idle", "set", "accepted", "rejected"}
    /\ \A c \in Callers :
          wpc[c] \in {"none", "fetch", "callback", "commit", "publish", "done"}
    /\ \A c \in Callers : fetchFailed[c] \in {"none", "lost", "closed"}
    /\ \A c \in Callers : wcalls[c].failed \subseteq {"commit", "publish"}
    /\ closed \in BOOLEAN /\ writerClosed \in BOOLEAN /\ dlqWriterClosed \in BOOLEAN
    /\ closeCalls \in Nat /\ readerCloseCalls \in Nat
====
